---------------------------- MODULE Spec2Model ----------------------------
(*************************************************************************)
(* Model of patisserie (src/main.rs): the duration parser, the language  *)
(* resolver and the request (URL) builder of a pastery.net client.       *)
(*                                                                       *)
(* Strings are sequences of one-character strings.  Unsigned integers    *)
(* (u32 amounts, u64 seconds) exceed the range of the model checker's    *)
(* integers, so they are kept as little-endian sequences of base-10^4    *)
(* limbs without leading zero limbs (zero is the empty sequence).        *)
(*************************************************************************)
EXTENDS Integers, Sequences, FiniteSets, TLC

\* ------------------------------------------------------------ bounds
\* longest duration string enumerated exhaustively over DurationChars
MaxDurationLen == 3
\* longest language alias enumerated exhaustively over LangChars
MaxLangLen == 4
\* longest path enumerated exhaustively over PathChars
MaxPathLen == 3
\* directly constructed Options carry Duration::from_secs(30 * n) for n in
\* 0..MaxDirectHalfMinutes
MaxDirectHalfMinutes == 5

\* ------------------------------------------- unsigned integer arithmetic
LimbBase == 10^4

RECURSIVE Norm(_)
Norm(x) ==
    IF x = <<>> THEN <<>>
    ELSE IF x[Len(x)] = 0 THEN Norm(SubSeq(x, 1, Len(x) - 1))
    ELSE x

RECURSIVE Big(_)
\* the limbs of a small natural number
Big(n) == IF n = 0 THEN <<>> ELSE <<n % LimbBase>> \o Big(n \div LimbBase)

RECURSIVE AddCarry(_, _, _)
AddCarry(x, y, c) ==
    IF x = <<>> /\ y = <<>> THEN (IF c = 0 THEN <<>> ELSE <<c>>)
    ELSE LET a == IF x = <<>> THEN 0 ELSE Head(x)
             b == IF y = <<>> THEN 0 ELSE Head(y)
             t == a + b + c
         IN  <<t % LimbBase>> \o
             AddCarry(IF x = <<>> THEN <<>> ELSE Tail(x),
                      IF y = <<>> THEN <<>> ELSE Tail(y),
                      t \div LimbBase)

BigAdd(x, y) == Norm(AddCarry(x, y, 0))

RECURSIVE MulLimb(_, _, _)
\* x * k + c for one limb k
MulLimb(x, k, c) ==
    IF x = <<>> THEN (IF c = 0 THEN <<>> ELSE <<c>>)
    ELSE LET t == Head(x) * k + c
         IN  <<t % LimbBase>> \o MulLimb(Tail(x), k, t \div LimbBase)

RECURSIVE BigMul(_, _)
BigMul(x, y) ==
    IF y = <<>> \/ x = <<>> THEN <<>>
    ELSE LET rest == BigMul(x, Tail(y))
         IN  BigAdd(Norm(MulLimb(x, Head(y), 0)),
                    IF rest = <<>> THEN <<>> ELSE <<0>> \o rest)

RECURSIVE GtFrom(_, _, _)
\* x > y for x, y of equal length, compared from limb i downwards
GtFrom(x, y, i) ==
    IF i = 0 THEN FALSE
    ELSE IF x[i] # y[i] THEN x[i] > y[i]
    ELSE GtFrom(x, y, i - 1)

BigGt(x, y) ==
    IF Len(x) # Len(y) THEN Len(x) > Len(y) ELSE GtFrom(x, y, Len(x))

BigLeq(x, y) == ~BigGt(x, y)

RECURSIVE DivFrom(_, _, _, _)
\* quotient and remainder of x by a small k, long division from limb i
DivFrom(x, k, i, r) ==
    IF i = 0 THEN [q |-> <<>>, r |-> r]
    ELSE LET t == r * LimbBase + x[i]
             lower == DivFrom(x, k, i - 1, t % k)
         IN  [q |-> lower.q \o <<t \div k>>, r |-> lower.r]

BigDiv(x, k) == Norm(DivFrom(x, k, Len(x), 0).q)

\* ---------------------------------------------------------------- text
DigitChars == <<"0", "1", "2", "3", "4", "5", "6", "7", "8", "9">>
Digits == {DigitChars[i] : i \in 1..10}

\* char::is_ascii_digit
is_ascii_digit(c) == c \in Digits

\* char::to_digit(10) of an ASCII digit
DigitValue(c) == (CHOOSE i \in 1..10 : DigitChars[i] = c) - 1

RECURSIVE SmallDigits(_)
SmallDigits(n) ==
    IF n < 10 THEN <<DigitChars[n + 1]>>
    ELSE SmallDigits(n \div 10) \o <<DigitChars[(n % 10) + 1]>>

PadLimb(n) ==
    LET d == SmallDigits(n)
    IN  [i \in 1..(4 - Len(d)) |-> "0"] \o d

RECURSIVE LimbDigits(_)
LimbDigits(x) ==
    IF Len(x) = 1 THEN SmallDigits(x[1])
    ELSE LimbDigits(Tail(x)) \o PadLimb(Head(x))

\* u32::to_string / u64::to_string: decimal, no sign, no leading zeros
to_string(x) == IF x = <<>> THEN <<"0">> ELSE LimbDigits(x)

RECURSIVE SeqsUpTo(_, _)
\* all sequences over S of length at most n
SeqsUpTo(S, n) ==
    IF n = 0 THEN {<<>>}
    ELSE LET shorter == SeqsUpTo(S, n - 1)
         IN  shorter \cup {<<c>> \o t : c \in S, t \in {u \in shorter : Len(u) = n - 1}}

\* ------------------------------------------------------- Option / Result
None == [some |-> FALSE]
Some(x) == [some |-> TRUE, val |-> x]
Ok(x) == [ok |-> TRUE, val |-> x]
\* a failure: its kind, what caused it, and the text its message echoes
Err(kind, cause, echo) == [ok |-> FALSE, err |-> kind, cause |-> cause, echo |-> echo]

\* ------------------------------------------------------ integer parsing
\* u32::MAX = 4294967295 and u64::MAX = 18446744073709551615
U32_MAX == <<7295, 9496, 42>>
U64_MAX == <<1615, 955, 737, 6744, 1844>>

RECURSIVE parse_digits_u32(_, _)
\* the digit loop of str::parse::<u32>: result = result * 10 + digit, each
\* step overflow-checked
parse_digits_u32(s, acc) ==
    IF s = <<>> THEN [ok |-> TRUE, val |-> acc]
    ELSE IF ~is_ascii_digit(Head(s)) THEN [ok |-> FALSE, kind |-> "InvalidDigit"]
    ELSE LET next == BigAdd(MulLimb(acc, 10, 0), Big(DigitValue(Head(s))))
         IN  IF BigGt(next, U32_MAX) THEN [ok |-> FALSE, kind |-> "PosOverflow"]
             ELSE parse_digits_u32(Tail(s), next)

\* str::parse::<u32>: an optional leading "+", then decimal digits
parse_u32(s) ==
    IF s = <<>> THEN [ok |-> FALSE, kind |-> "Empty"]
    ELSE IF Len(s) = 1 /\ Head(s) \in {"+", "-"} THEN [ok |-> FALSE, kind |-> "InvalidDigit"]
    ELSE IF Head(s) = "+" THEN parse_digits_u32(Tail(s), <<>>)
    ELSE parse_digits_u32(s, <<>>)

\* ------------------------------------------------------------ durations
\* A Duration is its whole number of seconds (u64): every Duration of the
\* program is built by Duration::from_secs and integer multiplication, so the
\* sub-second part is always zero.
from_secs(n) == Big(n)
as_secs(d) == d

\* mutant: the product is checked against 32 bits
checked_mul_u32(d, rhs) ==
    LET p == BigMul(d, rhs)
    IN  IF BigGt(p, U32_MAX) THEN None ELSE Some(p)

\* the overflow test of Duration::checked_mul(self, rhs: u32), on a u64
checked_mul(d, rhs) ==
    LET p == BigMul(d, rhs)
    IN  IF BigGt(p, U64_MAX) THEN None ELSE Some(p)

unwrap(o) == o.val

ONE_MINUTE == from_secs(60)
ONE_HOUR == unwrap(checked_mul(ONE_MINUTE, Big(60)))
ONE_DAY == unwrap(checked_mul(ONE_HOUR, Big(24)))
ONE_WEEK == unwrap(checked_mul(ONE_DAY, Big(7)))
ONE_MONTH == unwrap(checked_mul(ONE_WEEK, Big(4)))
ONE_YEAR == unwrap(checked_mul(ONE_DAY, Big(365)))
ONE_HUNDRED_YEARS == unwrap(checked_mul(ONE_YEAR, Big(100)))

RECURSIVE find_non_digit(_, _)
\* s.find(|c| !c.is_ascii_digit()), searching from index i: the index of the
\* first character that is not an ASCII digit, 0 when there is none
find_non_digit(s, i) ==
    IF i > Len(s) THEN 0
    ELSE IF ~is_ascii_digit(s[i]) THEN i
    ELSE find_non_digit(s, i + 1)

\* mutant: "mo" taken as a 30-day month
match_unit_month30(unit) ==
    IF unit = <<"m">> THEN Ok(ONE_MINUTE)
    ELSE IF unit = <<"h">> THEN Ok(ONE_HOUR)
    ELSE IF unit = <<"d">> THEN Ok(ONE_DAY)
    ELSE IF unit = <<"w">> THEN Ok(ONE_WEEK)
    ELSE IF unit = <<"m", "o">> THEN Ok(unwrap(checked_mul(ONE_DAY, Big(30))))
    ELSE IF unit = <<"y">> THEN Ok(ONE_YEAR)
    ELSE Err("UnknownUnit", "unit", unit)

\* mutant: only the first character of the suffix is matched
match_unit_first_char(unit) ==
    IF Head(unit) = "m" THEN Ok(ONE_MINUTE)
    ELSE IF Head(unit) = "h" THEN Ok(ONE_HOUR)
    ELSE IF Head(unit) = "d" THEN Ok(ONE_DAY)
    ELSE IF Head(unit) = "w" THEN Ok(ONE_WEEK)
    ELSE IF Head(unit) = "y" THEN Ok(ONE_YEAR)
    ELSE Err("UnknownUnit", "unit", unit)

\* the match on the unit suffix
match_unit(unit) ==
    IF unit = <<"m">> THEN Ok(ONE_MINUTE)
    ELSE IF unit = <<"h">> THEN Ok(ONE_HOUR)
    ELSE IF unit = <<"d">> THEN Ok(ONE_DAY)
    ELSE IF unit = <<"w">> THEN Ok(ONE_WEEK)
    ELSE IF unit = <<"m", "o">> THEN Ok(ONE_MONTH)
    ELSE IF unit = <<"y">> THEN Ok(ONE_YEAR)
    ELSE Err("UnknownUnit", "unit", unit)

\* mutant: the ceiling itself is rejected (>= for >)
mul_and_check_exclusive(s, unit, amount) ==
    LET product == checked_mul(unit, amount)
    IN  IF product.some
        THEN IF ~BigGt(ONE_HUNDRED_YEARS, product.val)
             THEN Err("DurationTooLong", "ceiling", s)
             ELSE Ok(product.val)
        ELSE Err("DurationTooLong", "overflow", s)

\* mutant: no comparison with the ceiling
mul_and_check_unbounded(s, unit, amount) ==
    LET product == checked_mul(unit, amount)
    IN  IF product.some THEN Ok(product.val)
        ELSE Err("DurationTooLong", "overflow", s)

\* the overflow-checked multiplication and the comparison with the ceiling
mul_and_check(s, unit, amount) ==
    LET product == checked_mul(unit, amount)
    IN  IF product.some
        THEN IF BigGt(product.val, ONE_HUNDRED_YEARS)
             THEN Err("DurationTooLong", "ceiling", s)
             ELSE Ok(product.val)
        ELSE Err("DurationTooLong", "overflow", s)

\* mutant: the unit is matched before the amount is parsed
parse_duration_unit_first(s) ==
    LET split_at == find_non_digit(s, 1)
    IN  IF split_at = 0 THEN Err("MissingUnit", "none", <<>>)
        ELSE LET amount_s == SubSeq(s, 1, split_at - 1)
                 unit == SubSeq(s, split_at, Len(s))
                 base == match_unit(unit)
             IN  IF ~base.ok THEN base
                 ELSE LET amount == parse_u32(amount_s)
                      IN  IF ~amount.ok THEN Err("MalformedAmount", amount.kind, <<>>)
                          ELSE mul_and_check(s, base.val, amount.val)

parse_duration(s) ==
    LET split_at == find_non_digit(s, 1)
    IN  IF split_at = 0 THEN Err("MissingUnit", "none", <<>>)
        ELSE LET amount_s == SubSeq(s, 1, split_at - 1)
                 unit == SubSeq(s, split_at, Len(s))
                 amount == parse_u32(amount_s)
             IN  IF ~amount.ok THEN Err("MalformedAmount", amount.kind, <<>>)
                 ELSE LET base == match_unit(unit)
                      IN  IF ~base.ok THEN base
                          ELSE mul_and_check(s, base.val, amount.val)

\* ------------------------------------------------------------ languages
\* The registry is generated at build time; these are the keys of it that the
\* program names (AUTODETECT and test::parse_langs).
LANGUAGES == {<<"a", "u", "t", "o", "d", "e", "t", "e", "c", "t">>, <<"r", "u", "s", "t">>, <<"c">>, <<"h", "t", "m", "l">>, <<"p", "y", "t", "h", "o", "n">>}

get_key(registry, key) == IF key \in registry THEN Some(key) ELSE None

AUTODETECT == unwrap(get_key(LANGUAGES, <<"a", "u", "t", "o", "d", "e", "t", "e", "c", "t">>))

\* mutant: an unknown alias is passed through
parse_lang_passthrough(lang) ==
    LET hit == get_key(LANGUAGES, lang)
    IN  IF hit.some THEN hit.val ELSE lang

parse_lang(lang) ==
    LET hit == get_key(LANGUAGES, lang)
    IN  IF hit.some THEN hit.val ELSE AUTODETECT

\* ---------------------------------------------------------------- paths
\* One element of a path stands for one byte of it; "<FF>" is a byte that is
\* not valid UTF-8 and "<FFFD>" the replacement character U+FFFD.
RECURSIVE split_path(_, _)
\* the non-empty pieces of p between separators ("/" runs collapse), with cur
\* the piece being read
split_path(p, cur) ==
    IF p = <<>> THEN (IF cur = <<>> THEN <<>> ELSE <<cur>>)
    ELSE IF Head(p) = "/"
         THEN (IF cur = <<>> THEN <<>> ELSE <<cur>>) \o split_path(Tail(p), <<>>)
         ELSE split_path(Tail(p), cur \o <<Head(p)>>)

\* Path::components: "." pieces are dropped except a leading one of a path
\* without a root
components(p) ==
    LET pieces == split_path(p, <<>>)
        has_root == p # <<>> /\ Head(p) = "/"
        keep(i) == pieces[i] # <<".">> \/ (i = 1 /\ ~has_root)
    IN  SelectSeq([i \in 1..Len(pieces) |-> [piece |-> pieces[i], keep |-> keep(i)]],
                  LAMBDA c : c.keep)

\* Path::file_name: the last component when it is a normal one; None for a
\* path that ends in "..", is "." or a root, or is empty
file_name(p) ==
    LET cs == components(p)
    IN  IF cs = <<>> THEN None
        ELSE LET last == cs[Len(cs)].piece
             IN  IF last = <<".", ".">> \/ last = <<".">> THEN None ELSE Some(last)

\* OsStr::to_string_lossy: every invalid byte becomes U+FFFD
to_string_lossy(name) ==
    [i \in 1..Len(name) |-> IF name[i] = "<FF>" THEN "<FFFD>" ELSE name[i]]

\* ------------------------------------------------------ request builder
PASTERY_URL == <<"h", "t", "t", "p", "s", ":", "/", "/", "w", "w", "w", ".", "p", "a", "s", "t", "e", "r", "y", ".", "n", "e", "t", "/", "a", "p", "i", "/", "p", "a", "s", "t", "e", "/">>

\* The characters of a string: the printable ASCII characters, the control
\* characters "\t", "\n" and "\r", and "<XXXX>" for the character U+XXXX
\* outside ASCII.
\* the characters with the codes 32 (space) to 95 (_), in order
AsciiFrom32 ==
    <<
      " ", "!", "\"", "#", "$", "%", "&", "'", "(", ")", "*", "+",
      ",", "-", ".", "/", "0", "1", "2", "3", "4", "5", "6", "7",
      "8", "9", ":", ";", "<", "=", ">", "?", "@", "A", "B", "C",
      "D", "E", "F", "G", "H", "I", "J", "K", "L", "M", "N", "O",
      "P", "Q", "R", "S", "T", "U", "V", "W", "X", "Y", "Z", "[",
      "\\", "]", "^", "_"
    >>

\* the characters with the codes 97 (a) to 126 (~), in order
AsciiFrom97 ==
    <<
      "a", "b", "c", "d", "e", "f", "g", "h", "i", "j", "k", "l",
      "m", "n", "o", "p", "q", "r", "s", "t", "u", "v", "w", "x",
      "y", "z", "{", "|", "}", "~"
    >>

\* the UTF-8 bytes of a character
utf8_bytes(c) ==
    IF c = "\t" THEN <<9>>
    ELSE IF c = "\n" THEN <<10>>
    ELSE IF c = "\r" THEN <<13>>
    ELSE IF c = "<0060>" THEN <<96>>
    ELSE IF c = "<00E9>" THEN <<195, 169>>
    ELSE IF c = "<FFFD>" THEN <<239, 191, 189>>
    ELSE IF \E i \in 1..Len(AsciiFrom97) : AsciiFrom97[i] = c
         THEN <<96 + CHOOSE i \in 1..Len(AsciiFrom97) : AsciiFrom97[i] = c>>
    ELSE <<31 + CHOOSE i \in 1..Len(AsciiFrom32) : AsciiFrom32[i] = c>>

HexDigits ==
    <<"0", "1", "2", "3", "4", "5", "6", "7", "8", "9", "A", "B", "C", "D", "E", "F">>

\* percent_encode_byte: "%" and two upper-case hexadecimal digits
percent_encode_byte(b) == <<"%", HexDigits[(b \div 16) + 1], HexDigits[(b % 16) + 1]>>

\* the bytes byte_serialize leaves as they are: ASCII letters and digits,
\* "*", "-", "." and "_"
is_unchanged_byte(b) ==
    \/ b \in 48..57
    \/ b \in 65..90
    \/ b \in 97..122
    \/ b \in {42, 45, 46, 95}

RECURSIVE serialize_bytes(_, _)
\* bs serialized, where c is the character the bytes came from
serialize_bytes(bs, c) ==
    IF bs = <<>> THEN <<>>
    ELSE (IF Head(bs) = 32 THEN <<"+">>
          ELSE IF is_unchanged_byte(Head(bs)) THEN <<c>>
          ELSE percent_encode_byte(Head(bs)))
         \o serialize_bytes(Tail(bs), c)

\* form_urlencoded::byte_serialize of the bytes of one character: a space
\* becomes "+", the unchanged bytes stay, every other byte is percent-encoded
byte_serialize(c) == serialize_bytes(utf8_bytes(c), c)

RECURSIVE serialize(_)
serialize(s) == IF s = <<>> THEN <<>> ELSE byte_serialize(Head(s)) \o serialize(Tail(s))

\* query_pairs.append_pair(name, value) on the pairs appended so far
append_pair(pairs, name, value) == pairs \o <<[name |-> name, value |-> value]>>

RECURSIVE serialize_pairs(_)
serialize_pairs(pairs) ==
    IF pairs = <<>> THEN <<>>
    ELSE serialize(Head(pairs).name) \o <<"=">> \o serialize(Head(pairs).value)
         \o (IF Tail(pairs) = <<>> THEN <<>> ELSE <<"&">> \o serialize_pairs(Tail(pairs)))

\* Url::to_string of a URL whose query was written by query_pairs_mut
url_to_string(url) == url.base \o <<"?">> \o serialize_pairs(url.pairs)

\* mutant: the seconds are not divided
duration_in_secs(options) == as_secs(options.duration)

duration_in_min(options) == BigDiv(as_secs(options.duration), 60)

\* mutant: max_views is appended whenever it is present, zero included
append_max_views_if_some(pairs, options) ==
    IF options.max_views.some
    THEN append_pair(pairs, <<"m", "a", "x", "_", "v", "i", "e", "w", "s">>, to_string(options.max_views.val))
    ELSE pairs

\* the max_views parameter: appended when unwrap_or(0) is positive
append_max_views(pairs, options) ==
    LET max_views == IF options.max_views.some THEN options.max_views.val ELSE Big(0)
    IN  IF BigGt(max_views, Big(0))
        THEN append_pair(pairs, <<"m", "a", "x", "_", "v", "i", "e", "w", "s">>, to_string(max_views))
        ELSE pairs

\* mutant: the path is looked at before the title
maybe_title_path_first(options) ==
    IF options.path.some
    THEN LET name == file_name(options.path.val)
         IN  IF name.some THEN Some(to_string_lossy(name.val)) ELSE None
    ELSE IF options.title.some THEN Some(options.title.val)
    ELSE None

\* the match on (title, path)
maybe_title(options) ==
    IF options.title.some THEN Some(options.title.val)
    ELSE IF options.path.some
         THEN LET name == file_name(options.path.val)
              IN  IF name.some THEN Some(to_string_lossy(name.val)) ELSE None
         ELSE None

append_title(pairs, options) ==
    LET title == maybe_title(options)
    IN  IF title.some THEN append_pair(pairs, <<"t", "i", "t", "l", "e">>, title.val) ELSE pairs

generate_url(options) ==
    LET required ==
            append_pair(
                append_pair(
                    append_pair(<<>>, <<"a", "p", "i", "_", "k", "e", "y">>, options.api_key),
                    <<"l", "a", "n", "g", "u", "a", "g", "e">>, options.lang),
                <<"d", "u", "r", "a", "t", "i", "o", "n">>, to_string(duration_in_min(options)))
    IN  [base |-> PASTERY_URL,
         pairs |-> append_title(append_max_views(required, options), options)]

\* ------------------------------------------------------------ arguments
\* Options::from_args on the raw arguments: --lang through parse_lang with
\* default "autodetect", --duration through parse_duration with default "1d",
\* --max-views through u32::from_str, the others taken as given
from_args(args) ==
    LET lang == parse_lang(IF args.lang.some THEN args.lang.val ELSE <<"a", "u", "t", "o", "d", "e", "t", "e", "c", "t">>)
        duration == parse_duration(IF args.duration.some THEN args.duration.val ELSE <<"1", "d">>)
        views == IF args.max_views.some THEN parse_u32(args.max_views.val) ELSE Ok(<<>>)
    IN  [ok |-> duration.ok /\ views.ok,
         duration |-> duration,
         max_views |-> views,
         options |-> IF duration.ok /\ views.ok
                     THEN Some([api_key |-> args.api_key,
                                lang |-> lang,
                                duration |-> duration.val,
                                title |-> args.title,
                                max_views |-> IF args.max_views.some
                                              THEN Some(views.val) ELSE None,
                                path |-> args.path])
                     ELSE None]

\* --------------------------------------------------------------- inputs
DurationChars == {"0", "1", "9", "m", "o", "h", "d", "w", "y", "j", "M"}

\* amounts at the edges of the u32 range and of the 100-year ceiling
EdgeAmounts ==
    {<<"0">>, <<"5">>, <<"0", "0", "7">>, <<"1", "0", "0">>, <<"1", "0", "1">>, <<"1", "3", "0", "3">>, <<"1", "3", "0", "4">>, <<"5", "2", "1", "4">>, <<"5", "2", "1", "5">>,
     <<"3", "6", "5", "0", "0">>, <<"3", "6", "5", "0", "1">>, <<"8", "7", "6", "0", "0", "0">>, <<"8", "7", "6", "0", "0", "1">>, <<"5", "2", "5", "6", "0", "0", "0", "0">>, <<"5", "2", "5", "6", "0", "0", "0", "1">>,
     <<"4", "2", "9", "4", "9", "6", "7", "2", "9", "5">>, <<"4", "2", "9", "4", "9", "6", "7", "2", "9", "6">>, <<"9", "9", "9", "9", "9", "9", "9", "9", "9", "9", "9">>, <<"0", "0", "0", "0", "0", "0", "0", "0", "0", "0", "0", "0", "0", "1">>}

EdgeTails ==
    {<<>>, <<"m">>, <<"h">>, <<"d">>, <<"w">>, <<"m", "o">>, <<"y">>, <<"j">>, <<"M">>, <<"m", "o", "2">>, <<"m", "3">>, <<" ", "y">>, <<"+", "m">>}

DurationInputs ==
    SeqsUpTo(DurationChars, MaxDurationLen)
        \cup {a \o t : a \in EdgeAmounts, t \in EdgeTails}

LangChars == {"c", "C", "r", "u", "s", "t"}

LangInputs ==
    SeqsUpTo(LangChars, MaxLangLen) \cup LANGUAGES \cup {<<"a", "s", "d", "f">>, <<"R", "u", "s", "t">>, <<"R", "U", "S", "T">>}

PathChars == {"a", ".", "/"}

PathInputs ==
    SeqsUpTo(PathChars, MaxPathLen)
        \cup {<<"f", "o", "o", ".", "r", "s">>, <<"f", "o", "o", "/", "b", "a", "r", ".", "r", "s">>, <<"f", "o", "o", "/">>, <<"/", "f", "o", "o", "/", ".", ".", "/", "b", "a", "r">>, <<"f", "o", "o", "/", ".", ".">>,
              <<"a", "<FF>">>, <<"<FF>", "/", "<FF>", "b", "<FF>">>}

TitleInputs == {None, Some(<<"f", "o", "o", " ", "b", "a", "r", ".", "r", "s">>), Some(<<>>), Some(<<"a", "/", "b">>),
     Some(<<"a", "&", "b", "=", "c", "+", "d", "%", "~">> \o <<"<00E9>">>)}

\* Durations of directly constructed Options: multiples of half a minute, the
\* neighbours of whole minutes, and the program's named spans
DirectDurations ==
    {from_secs(30 * n) : n \in 0..MaxDirectHalfMinutes}
        \cup {from_secs(59), from_secs(61), from_secs(119)}
        \cup {ONE_MINUTE, ONE_HOUR, ONE_DAY, ONE_WEEK, ONE_MONTH, ONE_YEAR,
              ONE_HUNDRED_YEARS}

DirectMaxViews == {None, Some(Big(0)), Some(Big(1)), Some(Big(100)), Some(U32_MAX)}

\* Options as the tests construct them, without the argument parser
DirectOptions ==
    [api_key : {<<"f", "o", "o">>, <<"a", "&", "b", "=", "c">>},
     lang : {AUTODETECT, <<"r", "u", "s", "t">>},
     duration : DirectDurations,
     title : TitleInputs,
     max_views : DirectMaxViews,
     path : {None} \cup {Some(p) : p \in PathInputs}]

\* raw command lines
ArgInputs ==
    [api_key : {<<"f", "o", "o">>},
     lang : {None, Some(<<"R", "u", "s", "t">>)},
     duration : {None} \cup {Some(s) : s \in DurationInputs},
     title : {None},
     max_views : {None, Some(<<"1", "0", "0">>), Some(<<"-", "1">>)},
     path : {None}]

\* ------------------------------------------------------------- the program
VARIABLES
    pc,       \* where the program is
    args,     \* the raw input
    parsed,   \* what the argument parsers returned
    options,  \* the Options value, once there is one
    url       \* the generated URL, once there is one

vars == <<pc, args, parsed, options, url>>

NotYet == [some |-> FALSE]

\* main: the command line is read, then the URL is generated
Init ==
    /\ pc = "args"
    /\ args \in ArgInputs
    /\ parsed = NotYet
    /\ options = NotYet
    /\ url = NotYet

\* Options::from_args(): exits with a usage error when a parser fails
FromArgs ==
    /\ pc = "args"
    /\ LET r == from_args(args)
       IN  /\ parsed' = [some |-> TRUE, duration |-> r.duration, max_views |-> r.max_views]
           /\ options' = r.options
           /\ pc' = IF r.ok THEN "options" ELSE "usage_error"
    /\ UNCHANGED <<args, url>>

\* let url = generate_url(&options)
GenerateUrl ==
    /\ pc = "options"
    /\ url' = Some(generate_url(options.val))
    /\ pc' = "done"
    /\ UNCHANGED <<args, parsed, options>>

Next == FromArgs \/ GenerateUrl

Spec == Init /\ [][Next]_vars

\* generate_url on Options constructed directly (test::generate_urls)
InitBuild ==
    /\ pc = "options"
    /\ args = NotYet
    /\ parsed = NotYet
    /\ options \in {Some(o) : o \in DirectOptions}
    /\ url = NotYet

NextBuild == GenerateUrl

SpecBuild == InitBuild /\ [][NextBuild]_vars

\* parse_lang on an alias, and again on its own result (test::parse_langs)
InitLang ==
    /\ pc = "lang"
    /\ args \in LangInputs
    /\ parsed = NotYet
    /\ options = NotYet
    /\ url = NotYet

ParseLang ==
    /\ pc = "lang"
    /\ parsed' = [some |-> TRUE, lang |-> parse_lang(args)]
    /\ pc' = "lang_once"
    /\ UNCHANGED <<args, options, url>>

ParseLangAgain ==
    /\ pc = "lang_once"
    /\ parsed' = [some |-> TRUE, lang |-> parsed.lang, again |-> parse_lang(parsed.lang)]
    /\ pc' = "lang_twice"
    /\ UNCHANGED <<args, options, url>>

NextLang == ParseLang \/ ParseLangAgain

SpecLang == InitLang /\ [][NextLang]_vars

\* main's flow from either entry: a command line, or Options built directly
InitUrl == Init \/ InitBuild

SpecUrl == InitUrl /\ [][Next]_vars

\* =================================================================== claims
\* What the specification says, stated without the program's own helpers.

\* the unit table of the specification, in seconds and in minutes
UnitNames == {<<"m">>, <<"h">>, <<"d">>, <<"w">>, <<"m", "o">>, <<"y">>}

BaseSeconds(u) ==
    IF u = <<"m">> THEN Big(60)
    ELSE IF u = <<"h">> THEN Big(3600)
    ELSE IF u = <<"d">> THEN Big(86400)
    ELSE IF u = <<"w">> THEN Big(604800)
    ELSE IF u = <<"m", "o">> THEN BigMul(Big(28), Big(86400))
    ELSE BigMul(Big(365), Big(86400))

BaseMinutes(u) ==
    IF u = <<"m">> THEN Big(1)
    ELSE IF u = <<"h">> THEN Big(60)
    ELSE IF u = <<"d">> THEN Big(1440)
    ELSE IF u = <<"w">> THEN Big(10080)
    ELSE IF u = <<"m", "o">> THEN Big(40320)
    ELSE Big(525600)

\* 100 x 365 days, in seconds
Ceiling == BigMul(Big(100), BigMul(Big(365), Big(86400)))

TwoTo32 == BigMul(Big(65536), Big(65536))

RECURSIVE DecimalValue(_, _)
\* the number a digit string denotes, of any size
DecimalValue(a, acc) ==
    IF a = <<>> THEN acc
    ELSE DecimalValue(Tail(a), BigAdd(BigMul(acc, Big(10)), Big(DigitValue(Head(a)))))

\* the length of the leading maximal run of ASCII digits
LeadLen(s) ==
    CHOOSE n \in 0..Len(s) :
        /\ \A i \in 1..n : s[i] \in Digits
        /\ n = Len(s) \/ s[n + 1] \notin Digits

AmountOf(s) == SubSeq(s, 1, LeadLen(s))
TailOf(s) == SubSeq(s, LeadLen(s) + 1, Len(s))
AmountValue(s) == DecimalValue(AmountOf(s), <<>>)

\* the amount is a digit run that fits an unsigned 32-bit integer
ValidAmount(s) == AmountOf(s) # <<>> /\ BigGt(TwoTo32, AmountValue(s))

\* well-formed: a valid amount followed by exactly one of the six units
WellFormed(s) == ValidAmount(s) /\ TailOf(s) \in UnitNames

ProductOf(s) == BigMul(AmountValue(s), BaseSeconds(TailOf(s)))

\* the --duration argument the program parsed (its default is "1d"), and the
\* parser's result
HasParsed == pc \in {"options", "usage_error", "done"} /\ parsed.some
DurationArg == IF args.duration.some THEN args.duration.val ELSE <<"1", "d">>
DurationResult == parsed.duration

Fails(kind) == ~DurationResult.ok /\ DurationResult.err = kind

\* C1: a valid amount followed by one of the six units, with a product of at
\* most 100 years, parses to exactly amount x base(unit) seconds.
C1_ParseEqualsAmountTimesBase ==
    (HasParsed /\ WellFormed(DurationArg) /\ BigLeq(ProductOf(DurationArg), Ceiling))
        => (DurationResult.ok /\ DurationResult.val = ProductOf(DurationArg))

C1_Witness ==
    /\ HasParsed
    /\ DurationArg = <<"1", "3", "0", "3", "m", "o">>
    /\ DurationResult.ok
    /\ DurationResult.val = BigMul(Big(1303), Big(2419200))

\* C2: for a well-formed input the parser fails with DurationTooLong exactly
\* when amount x base(unit) is strictly greater than 100 x 365 days; a product
\* equal to the ceiling is accepted.
C2_CeilingInclusive ==
    (HasParsed /\ WellFormed(DurationArg))
        => /\ Fails("DurationTooLong") <=> BigGt(ProductOf(DurationArg), Ceiling)
           /\ DurationResult.ok <=> BigLeq(ProductOf(DurationArg), Ceiling)

C2_Witness ==
    /\ HasParsed
    /\ DurationArg = <<"3", "6", "5", "0", "0", "d">>
    /\ DurationResult.ok
    /\ DurationResult.val = Ceiling

\* C3 as written: every span the parser returns lies in [1 minute, 100 years].
C3_Original ==
    (HasParsed /\ DurationResult.ok)
        => /\ BigLeq(Big(60), DurationResult.val)
           /\ BigLeq(DurationResult.val, Ceiling)

\* C3 amended: every span the parser returns, and every Options.duration made
\* from a command line, is at most 100 years, and is either zero (exactly when
\* the amount is zero) or at least one minute.
C3_ZeroOrMinuteToCeiling ==
    /\ (HasParsed /\ DurationResult.ok)
          => /\ BigLeq(DurationResult.val, Ceiling)
             /\ DurationResult.val = Big(0) \/ BigLeq(Big(60), DurationResult.val)
             /\ DurationResult.val = Big(0) <=> AmountValue(DurationArg) = Big(0)
    /\ (HasParsed /\ options.some)
          => /\ BigLeq(options.val.duration, Ceiling)
             /\ options.val.duration = Big(0) \/ BigLeq(Big(60), options.val.duration)

C3_Witness ==
    /\ HasParsed
    /\ DurationArg = <<"0", "m">>
    /\ options.some
    /\ options.val.duration = Big(0)

\* C4: no non-digit character gives MissingUnit; an empty digit run before a
\* non-digit gives MalformedAmount; a valid amount whose whole tail is not one
\* of the six units gives UnknownUnit; "1mo" is 28 days.
C4_Classification ==
    HasParsed =>
        /\ TailOf(DurationArg) = <<>> => Fails("MissingUnit")
        /\ (TailOf(DurationArg) # <<>> /\ AmountOf(DurationArg) = <<>>)
              => Fails("MalformedAmount")
        /\ (TailOf(DurationArg) # <<>> /\ ValidAmount(DurationArg)
                /\ TailOf(DurationArg) \notin UnitNames)
              => (Fails("UnknownUnit") /\ DurationResult.echo = TailOf(DurationArg))
        /\ DurationArg = <<"1", "m", "o">>
              => (DurationResult.ok /\ DurationResult.val = BigMul(Big(28), Big(86400)))

C4_Witness ==
    /\ HasParsed
    /\ DurationArg = <<"5", "m", "o", "2">>
    /\ Fails("UnknownUnit")
    /\ DurationResult.echo = <<"m", "o", "2">>

\* C9: the overflow branch of the checked multiplication is never taken: a
\* u32 amount times any unit fits 64 bits, every DurationTooLong comes from the
\* ceiling comparison, and an amount too large for 32 bits is a
\* MalformedAmount.
C9_MultiplicationNeverOverflows ==
    HasParsed =>
        /\ ~DurationResult.ok => DurationResult.cause # "overflow"
        /\ Fails("DurationTooLong")
              => /\ DurationResult.cause = "ceiling"
                 /\ WellFormed(DurationArg)
                 /\ BigLeq(ProductOf(DurationArg), U64_MAX)
        /\ (TailOf(DurationArg) # <<>> /\ AmountOf(DurationArg) # <<>>
                /\ ~ValidAmount(DurationArg))
              => (Fails("MalformedAmount") /\ DurationResult.cause = "PosOverflow")

C9_Witness ==
    /\ HasParsed
    /\ DurationArg = <<"4", "2", "9", "4", "9", "6", "7", "2", "9", "5", "y">>
    /\ Fails("DurationTooLong")
    /\ DurationResult.cause = "ceiling"

\* C10: the checks run in the order missing unit, amount, unit, ceiling and
\* only the first failure is reported.
C10_FirstFailureWins ==
    HasParsed =>
        /\ (TailOf(DurationArg) = <<>>) <=> Fails("MissingUnit")
        /\ (TailOf(DurationArg) # <<>> /\ ~ValidAmount(DurationArg))
              <=> Fails("MalformedAmount")
        /\ (TailOf(DurationArg) # <<>> /\ ValidAmount(DurationArg)
                /\ TailOf(DurationArg) \notin UnitNames)
              <=> Fails("UnknownUnit")
        /\ Fails("DurationTooLong") => WellFormed(DurationArg)

C10_Witness ==
    /\ HasParsed
    /\ DurationArg = <<"9", "9", "9", "9", "9", "9", "9", "9", "9", "9", "9", "j">>
    /\ Fails("MalformedAmount")

\* ---- the request builder
UrlPairs == url.val.pairs
ParamNames == [i \in 1..Len(UrlPairs) |-> UrlPairs[i].name]
ValuesOf(name) ==
    LET hits == SelectSeq(UrlPairs, LAMBDA p : p.name = name)
    IN  [i \in 1..Len(hits) |-> hits[i].value]
Built == pc = "done" /\ options.some /\ url.some
Given == options.val

RECURSIVE TrimPath(_)
\* p without trailing separators and trailing "/." pieces
TrimPath(p) ==
    IF p = <<>> THEN p
    ELSE IF p[Len(p)] = "/" THEN TrimPath(SubSeq(p, 1, Len(p) - 1))
    ELSE IF Len(p) >= 2 /\ p[Len(p)] = "." /\ p[Len(p) - 1] = "/"
         THEN TrimPath(SubSeq(p, 1, Len(p) - 1))
    ELSE p

\* what follows the last separator of p
AfterLastSlash(p) ==
    LET cuts == {i \in 1..Len(p) : p[i] = "/"}
        from == IF cuts = {} THEN 1 ELSE 1 + CHOOSE i \in cuts : \A j \in cuts : j <= i
    IN  SubSeq(p, from, Len(p))

\* the final filename component of a path, when it has one: none for an empty
\* path, a root, ".", or a path that ends in ".."
FinalFileName(p) ==
    LET name == AfterLastSlash(TrimPath(p))
    IN  IF name \in {<<>>, <<".">>, <<".", ".">>} THEN None ELSE Some(name)

\* a name as text: bytes that are not valid UTF-8 shown as U+FFFD
AsText(name) == [i \in 1..Len(name) |-> IF name[i] = "<FF>" THEN "<FFFD>" ELSE name[i]]

ViewsPositive == Given.max_views.some /\ BigGt(Given.max_views.val, Big(0))
TitleResolvable ==
    Given.title.some \/ (Given.path.some /\ FinalFileName(Given.path.val).some)

\* C5: the URL is the fixed endpoint with the parameters api_key, language,
\* duration, then max_views exactly when it is present and positive, then
\* title exactly when one is resolvable, in that order and nothing else.
C5_ParameterOrder ==
    Built =>
        /\ url.val.base = PASTERY_URL
        /\ ParamNames =
              <<<<"a", "p", "i", "_", "k", "e", "y">>, <<"l", "a", "n", "g", "u", "a", "g", "e">>, <<"d", "u", "r", "a", "t", "i", "o", "n">>>>
                  \o (IF ViewsPositive THEN <<<<"m", "a", "x", "_", "v", "i", "e", "w", "s">>>> ELSE <<>>)
                  \o (IF TitleResolvable THEN <<<<"t", "i", "t", "l", "e">>>> ELSE <<>>)
        /\ ValuesOf(<<"a", "p", "i", "_", "k", "e", "y">>) = <<Given.api_key>>
        /\ ValuesOf(<<"l", "a", "n", "g", "u", "a", "g", "e">>) = <<Given.lang>>
        /\ ViewsPositive
              => DecimalValue(ValuesOf(<<"m", "a", "x", "_", "v", "i", "e", "w", "s">>)[1], <<>>) = Given.max_views.val

C5_Witness ==
    /\ Built
    /\ Given.max_views.some
    /\ Given.max_views.val = Big(100)
    /\ ~Given.title.some /\ ~Given.path.some
    /\ url_to_string(url.val) =
          <<"h", "t", "t", "p", "s", ":", "/", "/", "w", "w", "w", ".", "p", "a", "s", "t", "e", "r", "y", ".", "n", "e", "t", "/", "a", "p", "i", "/", "p", "a", "s", "t", "e", "/", "?", "a", "p", "i", "_", "k", "e", "y", "=", "f", "o", "o", "&", "l", "a", "n", "g", "u", "a", "g", "e", "=", "a", "u", "t", "o", "d", "e", "t", "e", "c", "t", "&", "d", "u", "r", "a", "t", "i", "o", "n", "=", "1", "4", "4", "0", "&", "m", "a", "x", "_", "v", "i", "e", "w", "s", "=", "1", "0", "0">>

\* C6 as written: an explicit title is used unchanged; otherwise a path gives
\* its final component as the title; the title is omitted only when there is
\* neither a title nor a path.
C6_Original ==
    Built =>
        /\ Given.title.some => ValuesOf(<<"t", "i", "t", "l", "e">>) = <<Given.title.val>>
        /\ (~Given.title.some /\ Given.path.some)
              => ValuesOf(<<"t", "i", "t", "l", "e">>) = <<AfterLastSlash(TrimPath(Given.path.val))>>
        /\ (~Given.title.some /\ ~Given.path.some) <=> ValuesOf(<<"t", "i", "t", "l", "e">>) = <<>>

\* C6 amended: an explicit title is used unchanged whether or not a path is
\* given; otherwise, when a path is given and has a final filename component,
\* the title is that component as text; otherwise the title is omitted.
C6_TitlePrecedence ==
    Built =>
        /\ Given.title.some => ValuesOf(<<"t", "i", "t", "l", "e">>) = <<Given.title.val>>
        /\ (~Given.title.some /\ Given.path.some /\ FinalFileName(Given.path.val).some)
              => ValuesOf(<<"t", "i", "t", "l", "e">>) = <<AsText(FinalFileName(Given.path.val).val)>>
        /\ (~Given.title.some
                /\ (~Given.path.some \/ ~FinalFileName(Given.path.val).some))
              => ValuesOf(<<"t", "i", "t", "l", "e">>) = <<>>

C6_Witness ==
    /\ Built
    /\ ~Given.title.some
    /\ Given.path.some
    /\ Given.path.val = <<"f", "o", "o", "/", "b", "a", "r", ".", "r", "s">>
    /\ ~Given.max_views.some
    /\ url_to_string(url.val) =
          <<"h", "t", "t", "p", "s", ":", "/", "/", "w", "w", "w", ".", "p", "a", "s", "t", "e", "r", "y", ".", "n", "e", "t", "/", "a", "p", "i", "/", "p", "a", "s", "t", "e", "/", "?", "a", "p", "i", "_", "k", "e", "y", "=", "f", "o", "o", "&", "l", "a", "n", "g", "u", "a", "g", "e", "=", "a", "u", "t", "o", "d", "e", "t", "e", "c", "t", "&", "d", "u", "r", "a", "t", "i", "o", "n", "=", "1", "4", "4", "0", "&", "t", "i", "t", "l", "e", "=", "b", "a", "r", ".", "r", "s">>

\* a decimal numeral without sign or leading zeros
IsNumeral(v) ==
    /\ v # <<>>
    /\ \A i \in 1..Len(v) : v[i] \in Digits
    /\ Len(v) > 1 => v[1] # "0"

\* C7: the duration parameter is always present and is the span's whole
\* minutes, floor(seconds / 60); for a span that came from the parser it is
\* amount x minutes-per-unit, and no seconds are lost.
C7_DurationInMinutes ==
    Built =>
        /\ Len(ValuesOf(<<"d", "u", "r", "a", "t", "i", "o", "n">>)) = 1
        /\ LET v == ValuesOf(<<"d", "u", "r", "a", "t", "i", "o", "n">>)[1]
               q == DecimalValue(v, <<>>)
               secs == Given.duration
           IN  /\ IsNumeral(v)
               /\ BigLeq(BigMul(q, Big(60)), secs)
               /\ BigGt(BigAdd(BigMul(q, Big(60)), Big(60)), secs)
               /\ parsed.some
                     => /\ BigMul(q, Big(60)) = secs
                        /\ q = BigMul(AmountValue(DurationArg), BaseMinutes(TailOf(DurationArg)))

C7_Witness ==
    /\ Built
    /\ parsed.some
    /\ DurationArg = <<"1", "0", "0", "y">>
    /\ ValuesOf(<<"d", "u", "r", "a", "t", "i", "o", "n">>) = <<<<"5", "2", "5", "6", "0", "0", "0", "0">>>>

\* ---- the language resolver
\* C8: parse_lang never fails: a registry key is returned as it is, anything
\* else gives autodetect; the result is a registry key, and resolving it
\* again changes nothing.
C8_ParseLangTotal ==
    (pc \in {"lang_once", "lang_twice"})
        => /\ args \in LANGUAGES => parsed.lang = args
           /\ args \notin LANGUAGES => parsed.lang = <<"a", "u", "t", "o", "d", "e", "t", "e", "c", "t">>
           /\ parsed.lang \in LANGUAGES
           /\ pc = "lang_twice" => parsed.again = parsed.lang

C8_Witness ==
    /\ pc = "lang_twice"
    /\ args = <<"R", "u", "s", "t">>
    /\ parsed.lang = <<"a", "u", "t", "o", "d", "e", "t", "e", "c", "t">>
    /\ parsed.again = <<"a", "u", "t", "o", "d", "e", "t", "e", "c", "t">>

============================================================================
